---- MODULE Spec2Model ----
(***************************************************************************)
(* ddeint: a delay-differential-equation solver built on scipy's ode and   *)
(* interp1d (src/ddeint/ddeint.py).                                        *)
(*                                                                         *)
(*   ddeVar  the history function Y: g before tc, an interp1d table after  *)
(*   dde     scipy.integrate.ode with Y updated after every integrate      *)
(*   ddeint  the driver over the output grid tt                            *)
(*                                                                         *)
(* Numbers are binary floating-point numbers of a reduced format: a        *)
(* significand of Precision bits (53 in the code's doubles), counted in    *)
(* quanta of 2^-Frac, so that One quanta stand for 1.0.  Every arithmetic  *)
(* operation rounds to nearest, ties to even, as IEEE 754 does.            *)
(*                                                                         *)
(* scipy and numpy are modelled by what the calls of this file make them   *)
(* do: interp1d evaluates a 1-D y with np.interp on itpr.y and an N-D y    *)
(* with _call_linear on itpr._y (written y_ here); ode.integrate runs the  *)
(* right-hand side any number of times and comes back with the state at    *)
(* the target, or, after a failed run, with a warning, a cleared success   *)
(* flag and the state where it stopped.  The right-hand side func and the  *)
(* solver's numerics are the caller's and scipy's: the states the solver   *)
(* returns are drawn from YVals.  np.array(...) of the returned list is    *)
(* the list.                                                               *)
(***************************************************************************)
EXTENDS Integers, Sequences, FiniteSets, TLC

VARIABLES
    g,          \* ddeint's argument g: the pre-history function
    tt,         \* ddeint's argument tt: the output grid
    Y0,         \* ddeint's / ddeVar's argument Y0; <<>> stands for None
    Y,          \* the ddeVar object (dde_.Y): g, tc and the interpolator itpr
    ode_t,      \* dde_.t, the solver's current time
    ode_y,      \* dde_.y, the solver's current state
    ode_success,\* the integrator's success flag (1, or 0 after a failed run)
    pc,         \* where the caller is
    i,          \* number of elements of np.diff(tt) consumed by line 151
    target,     \* the t passed to the integrate call in progress
    results,    \* the list built by the comprehension of line 151
    ret,        \* what ddeint returned
    evals,      \* what f2 handed to func, for each right-hand-side evaluation
                \* of the latest integrate call
    with_model, \* ddeint's argument with_model
    exc,        \* the exception that ended the call, or "none"
    last        \* the last ddeVar.update call: arguments, outcome, Y before

vars == <<g, tt, Y0, Y, ode_t, ode_y, ode_success, pc, i, target, results,
          ret, evals, with_model, exc, last>>

----------------------------------------------------------------------------
(* Bounds of the model *)

Precision == 5
Frac == 6
MaxLen == 3
MaxEvals == 2
MaxUpdates == 2

----------------------------------------------------------------------------
(* Reduced binary floating point *)

RECURSIVE Pow2(_)
Pow2(n) == IF n = 0 THEN 1 ELSE 2 * Pow2(n - 1)

One == Pow2(Frac)

\* the spacing of the format's numbers at magnitude q
RECURSIVE Ulp(_)
Ulp(q) == IF q < Pow2(Precision) THEN 1 ELSE 2 * Ulp(q \div 2)

\* num/den (num >= 0, den > 0) rounded to nearest, ties to even
RoundNearestEven(num, den) ==
    LET u == Ulp(num \div den)
        d == den * u
        m == num \div d
        r == num % d
    IN  IF 2 * r < d THEN m * u
        ELSE IF 2 * r > d THEN (m + 1) * u
        ELSE IF m % 2 = 0 THEN m * u ELSE (m + 1) * u

Round(num, den) ==
    IF num < 0 THEN -RoundNearestEven(-num, den) ELSE RoundNearestEven(num, den)

fadd(a, b) == Round(a + b, 1)
fsub(a, b) == Round(a - b, 1)
fmul(a, b) == Round(a * b, One)
fdiv(a, b) == IF b < 0 THEN Round(-(a * One), -b) ELSE Round(a * One, b)

----------------------------------------------------------------------------
(* Values, times and the pre-history function *)

\* the offset of the second bootstrap sample, tc-1.0E-10: the smallest step
\* the reduced format resolves next to the start times of the model
Tiny == 4

\* A value is the sequence of its components.  ndim = 0: g returns a number;
\* ndim = 1: g returns a numpy array of `size` elements.
Shapes == { [ndim |-> 0, size |-> 1],
            [ndim |-> 1, size |-> 1],
            [ndim |-> 1, size |-> 2] }

\* the pre-history of the module's example: 1+t, or the array [1+t, 2-t]
GFun(gg, t) ==
    [c \in 1..gg.size |-> IF c = 1 THEN fadd(One, t) ELSE fsub(2 * One, t)]

\* the Y0 a caller passes: None, or an initial value that is not g(tc)
Overrides(gg) ==
    { <<>>, [c \in 1..gg.size |-> IF c = 1 THEN -(One + One \div 8) ELSE 3 * (One \div 8)] }

\* the states the solver hands back (the right-hand side is the caller's)
YVals(gg) ==
    { [c \in 1..gg.size |-> IF c = 1 THEN One + One \div 8 ELSE -(3 * One)],
      [c \in 1..gg.size |-> IF c = 1 THEN -(3 * One) ELSE One + One \div 8] }

GridTimes == { 0, One, 2 * One }

----------------------------------------------------------------------------
(* scipy.interpolate.interp1d, kind='linear', bounds_error=False *)

\* numpy's linear_search of np.interp: the last j with xp[j] <= key, for a
\* key that is not below xp[1]
RECURSIVE linear_search(_, _, _)
linear_search(key, xp, k) ==
    IF k <= Len(xp) /\ key >= xp[k] THEN linear_search(key, xp, k + 1) ELSE k - 1

\* np.interp(t, xp, fp) for xp[1] <= t <= xp[Len(xp)]
np_interp(t, xp, fp) ==
    LET j == linear_search(t, xp, 2)
    IN  IF j = Len(xp) THEN fp[j]
        ELSE IF xp[j] = t THEN fp[j]
        ELSE fadd(fmul(fdiv(fsub(fp[j + 1], fp[j]), fsub(xp[j + 1], xp[j])),
                       fsub(t, xp[j])),
                  fp[j])

\* np.searchsorted(xs, key), side='left': bisection; lo, hi count from 0
RECURSIVE searchsorted(_, _, _, _)
searchsorted(xs, key, lo, hi) ==
    IF lo >= hi THEN lo
    ELSE LET mid == lo + (hi - lo) \div 2
         IN  IF xs[mid + 1] < key THEN searchsorted(xs, key, mid + 1, hi)
             ELSE searchsorted(xs, key, lo, mid)

clip(n, a, b) == IF n < a THEN a ELSE IF n > b THEN b ELSE n

\* interp1d._call_linear on one column fy of _y
call_linear(t, xs, fy) ==
    LET hi == clip(searchsorted(xs, t, 0, Len(xs)), 1, Len(xs) - 1) + 1
        lo == hi - 1
        slope == fdiv(fsub(fy[hi], fy[lo]), fsub(xs[hi], xs[lo]))
    IN  fadd(fmul(slope, fsub(t, xs[lo])), fy[lo])

\* interp1d(x, y.T, kind='linear', bounds_error=False, fill_value=fill):
\* a 1-D y is evaluated by np.interp on y, an N-D y by _call_linear on _y
interp1d(xs, ys, ndim, fill) ==
    [x |-> xs, y |-> ys, y_ |-> ys,
     call |-> IF ndim = 0 THEN "linear_np" ELSE "linear",
     fill_value |-> fill]

\* the array the interpolator's _call reads
Table(it) == IF it.call = "linear_np" THEN it.y ELSE it.y_

Column(tab, c) == [k \in 1..Len(tab) |-> tab[k][c]]

\* interp1d.__call__: outside [x[0], x[-1]] the fill value
interp1d_call(it, t) ==
    IF t < it.x[1] \/ t > it.x[Len(it.x)] THEN it.fill_value
    ELSE IF it.call = "linear_np"
         THEN [c \in 1..1 |-> np_interp(t, it.x, Column(it.y, c))]
         ELSE [c \in 1..Len(it.y_[1]) |-> call_linear(t, it.x, Column(it.y_, c))]

----------------------------------------------------------------------------
(* class ddeVar *)

ddeVar_init(gg, tc, y0) ==
    LET Y0_ == IF y0 = <<>> THEN GFun(gg, tc) ELSE y0
    IN  [g |-> gg, tc |-> tc,
         itpr |-> interp1d(<<fsub(tc, One), fsub(tc, Tiny), tc>>,
                           <<GFun(gg, fsub(tc, One)), GFun(gg, fsub(tc, Tiny)), Y0_>>,
                           gg.ndim,
                           GFun(gg, tc))]

\* update(t, Y): the new object and the exception raised, if any.  np.hstack
\* of the 2-D itpr.y of an array-valued history and a 1-element Y raises,
\* after itpr.x was extended.
ddeVar_update(Yv, t, v) ==
    LET Yx == [Yv EXCEPT !.itpr.x = Append(@, t)]
    IN  IF Len(v) = 1
        THEN IF Yv.g.ndim = 0
             THEN [Y |-> [Yx EXCEPT !.itpr.y = Append(@, v), !.itpr.fill_value = v],
                   exc |-> "none"]
             ELSE [Y |-> Yx, exc |-> "ValueError"]
        ELSE [Y |-> [Yx EXCEPT !.itpr.y_ = Append(@, v), !.itpr.fill_value = v],
              exc |-> "none"]

\* a __call__ that asks the interpolator at every t
ddeVar_call_itpr(Yv, t) == interp1d_call(Yv.itpr, t)

ddeVar_call(Yv, t) ==
    IF t < Yv.tc THEN GFun(Yv.g, t) ELSE interp1d_call(Yv.itpr, t)

\* no object yet
NoY == [g |-> [ndim |-> 0, size |-> 1], tc |-> 0,
        itpr |-> [x |-> <<>>, y |-> <<>>, y_ |-> <<>>, call |-> "none",
                  fill_value |-> <<>>]]

NoCall == [op |-> "none", t |-> 0, v |-> <<>>, exc |-> "none", before |-> NoY]

----------------------------------------------------------------------------
(* A ddeVar in the hands of any caller: constructed, then updated *)

HistInit ==
    /\ g \in Shapes
    /\ Y0 \in Overrides(g)
    /\ \E tc \in GridTimes : Y = ddeVar_init(g, tc, Y0)
    /\ tt = <<>>
    /\ ode_t = 0
    /\ ode_y = <<>>
    /\ ode_success = 1
    /\ pc = "object"
    /\ i = 0
    /\ target = 0
    /\ results = <<>>
    /\ ret = [yy |-> <<>>, Y |-> NoY]
    /\ evals = <<>>
    /\ with_model = FALSE
    /\ exc = "none"
    /\ last = NoCall

\* the times a caller passes to update: at or after tc, in any order
UpdateTimes == { Y.tc + k * (One \div 2) : k \in 0..6 }

\* Y.update(t, v), by a caller; an object whose update raised is not used
\* again
Update ==
    /\ pc = "object"
    /\ last.exc = "none"
    /\ Len(Y.itpr.x) < 3 + MaxUpdates
    /\ \E t \in UpdateTimes, v \in YVals(g) :
          LET r == ddeVar_update(Y, t, v)
          IN  /\ Y' = r.Y
              /\ last' = [op |-> "update", t |-> t, v |-> v, exc |-> r.exc,
                          before |-> Y]
    /\ UNCHANGED <<g, tt, Y0, ode_t, ode_y, ode_success, pc, i, target, results,
                   ret, evals, with_model, exc>>

HistNext == Update

HistSpec == HistInit /\ [][HistNext]_vars

----------------------------------------------------------------------------
(* class dde and the function ddeint *)

\* every sequence over S of length 0..n
RECURSIVE SeqsUpTo(_, _)
SeqsUpTo(S, n) ==
    IF n = 0 THEN { <<>> }
    ELSE LET shorter == SeqsUpTo(S, n - 1)
         IN  shorter \cup { Append(q, e) : q \in { r \in shorter : Len(r) = n - 1 }, e \in S }

np_diff(ts) == [k \in 1..(Len(ts) - 1) |-> fsub(ts[k + 1], ts[k])]

\* dde.set_initial_value(Y): the solver starts from (Y(Y.tc), Y.tc)
dde_set_initial_value(Yv) ==
    [Y |-> Yv, y |-> ddeVar_call(Yv, Yv.tc), t |-> Yv.tc]

\* an f2 that hands func a copy of Y taken when set_initial_value bound it
f2_Y_copy == IF Len(tt) = 0 THEN Y ELSE ddeVar_init(g, tt[1], Y0)

\* the Y the closure f2 hands to func: self.Y, looked up at every call
f2_Y == Y

\* the times at which a solver run that fails may stop: where it started, or
\* on the way to the target
FailTimes(t0, t1) ==
    { t0 } \cup { m \in { fdiv(fadd(t0, t1), 2 * One) } : m # t1 }

\* a ddeint whose first output is the initial value the solver started from
ddeint_result_Y0 ==
    [yy |-> <<IF Y0 = <<>> THEN GFun(g, tt[1]) ELSE Y0>> \o results,
     Y |-> IF with_model THEN Y ELSE NoY]

\* what ddeint returns
ddeint_result ==
    [yy |-> <<GFun(g, tt[1])>> \o results,
     Y |-> IF with_model THEN Y ELSE NoY]

Init ==
    /\ g \in Shapes
    /\ Y0 \in Overrides(g)
    /\ tt \in SeqsUpTo(GridTimes, MaxLen)
    /\ with_model \in BOOLEAN
    /\ Y = NoY
    /\ ode_t = 0
    /\ ode_y = <<>>
    /\ ode_success = 1
    /\ pc = "start"
    /\ i = 0
    /\ target = 0
    /\ results = <<>>
    /\ ret = [yy |-> <<>>, Y |-> NoY]
    /\ evals = <<>>
    /\ exc = "none"
    /\ last = NoCall

\* lines 148-150: dde(func), ddeVar(g, tt[0], Y0), set_initial_value,
\* set_f_params; tt[0] of an empty tt raises
ddeint_setup ==
    /\ pc = "start"
    /\ IF Len(tt) = 0
       THEN /\ pc' = "raised"
            /\ exc' = "IndexError"
            /\ UNCHANGED <<Y, ode_t, ode_y>>
       ELSE LET s == dde_set_initial_value(ddeVar_init(g, tt[1], Y0))
            IN  /\ Y' = s.Y
                /\ ode_t' = s.t
                /\ ode_y' = s.y
                /\ pc' = "loop"
                /\ exc' = exc
    /\ UNCHANGED <<g, tt, Y0, ode_success, i, target, results, ret, evals,
                   with_model, last>>

\* line 151, one element dt of np.diff(tt): dde_.integrate(dde_.t + dt) is
\* entered and hands over to scipy's ode.integrate (line 67)
integrate_call ==
    /\ pc = "loop"
    /\ i < Len(np_diff(tt))
    /\ target' = fadd(ode_t, np_diff(tt)[i + 1])
    /\ pc' = "solver"
    /\ evals' = <<>>
    /\ UNCHANGED <<g, tt, Y0, Y, ode_t, ode_y, ode_success, i, results, ret,
                   with_model, exc, last>>

\* lines 60-61: the solver evaluates the right-hand side, f(self.Y, t, *args)
f2 ==
    /\ pc = "solver"
    /\ Len(evals) < MaxEvals
    /\ evals' = Append(evals, [step |-> i + 1,
                               x |-> f2_Y.itpr.x,
                               table |-> Table(f2_Y.itpr),
                               fill_value |-> f2_Y.itpr.fill_value])
    /\ UNCHANGED <<g, tt, Y0, Y, ode_t, ode_y, ode_success, pc, i, target,
                   results, ret, with_model, exc, last>>

\* lines 67-69 and the comprehension of line 151: ode.integrate comes back,
\* having reached the target (ok) or not (it warns, clears its success flag
\* and raises nothing), with a state v that is the old one if the time did
\* not move; Y is updated with the solver's (t, y); the state is returned
\* and collected
integrate_return ==
    /\ pc = "solver"
    /\ \E ok \in BOOLEAN :
       \E t1 \in (IF ok THEN { target } ELSE FailTimes(ode_t, target)) :
       \E v \in (IF t1 = ode_t THEN { ode_y } ELSE YVals(g)) :
          LET r == ddeVar_update(Y, t1, v)
          IN  /\ ode_t' = t1
              /\ ode_y' = v
              /\ ode_success' = IF ok THEN ode_success ELSE 0
              /\ Y' = r.Y
              /\ last' = [op |-> "update", t |-> t1, v |-> v, exc |-> r.exc,
                          before |-> Y]
              /\ IF r.exc = "none"
                 THEN /\ results' = Append(results, v)
                      /\ i' = i + 1
                      /\ pc' = "loop"
                      /\ exc' = exc
                 ELSE /\ pc' = "raised"
                      /\ exc' = r.exc
                      /\ UNCHANGED <<results, i>>
    /\ UNCHANGED <<g, tt, Y0, target, ret, evals, with_model>>

\* lines 152-155
ddeint_return ==
    /\ pc = "loop"
    /\ i = Len(np_diff(tt))
    /\ ret' = ddeint_result
    /\ pc' = "done"
    /\ UNCHANGED <<g, tt, Y0, Y, ode_t, ode_y, ode_success, i, target, results,
                   evals, with_model, exc, last>>

Next ==
    \/ ddeint_setup
    \/ integrate_call
    \/ f2
    \/ integrate_return
    \/ ddeint_return

Spec == Init /\ [][Next]_vars

----------------------------------------------------------------------------
(* Properties *)

LastOf(sq) == sq[Len(sq)]

StrictlySorted(xs) == \A k \in 1..(Len(xs) - 1) : xs[k] < xs[k + 1]

\* a constructed object whose table has a row for every time
Consistent(Yv) ==
    /\ Len(Yv.itpr.x) >= 3
    /\ Len(Table(Yv.itpr)) = Len(Yv.itpr.x)

\* the times at which the properties ask Y for its value
QueryTimes(Yv) ==
    { Yv.tc + k * (One \div 2) : k \in (-4)..8 }
        \cup { Yv.itpr.x[k] : k \in 1..Len(Yv.itpr.x) }

GoodGrid == Len(tt) >= 2 /\ StrictlySorted(tt)

\* C1: in every state of a ddeVar, Y(t) for t < tc is g(t), whatever the
\* interpolator holds.
C1_PreHistoryGoverns ==
    \A t \in QueryTimes(Y) : t < Y.tc => ddeVar_call(Y, t) = GFun(Y.g, t)

\* samples were appended, and the interpolator would answer some t < tc
\* differently from g
C1_Witness ==
    /\ Consistent(Y) /\ StrictlySorted(Y.itpr.x)
    /\ Len(Y.itpr.x) > 3
    /\ \E t \in QueryTimes(Y) :
          t < Y.tc /\ interp1d_call(Y.itpr, t) # GFun(Y.g, t)

\* C2: Y(tc) is Y0 when a Y0 was passed and g(tc) otherwise, after
\* construction and after updates at increasing times.
C2_StartValue ==
    (Consistent(Y) /\ StrictlySorted(Y.itpr.x)) =>
        ddeVar_call(Y, Y.tc) = (IF Y0 # <<>> THEN Y0 ELSE GFun(Y.g, Y.tc))

\* C3: after update(t1, y1) with t1 above every stored time, Y(t1) is y1,
\* (t1, y1) is the last row of the table Y reads, and the rows before it
\* are the rows that were there.
C3_AppendRecovers ==
    (/\ last.op = "update"
     /\ \A k \in 1..Len(last.before.itpr.x) : last.before.itpr.x[k] < last.t)
    => /\ last.exc = "none"
       /\ Y.itpr.x = Append(last.before.itpr.x, last.t)
       /\ Table(Y.itpr) = Append(Table(last.before.itpr), last.v)
       /\ ddeVar_call(Y, last.t) = last.v

\* C4: update(t, y) with t at or before the last stored time raises an
\* out-of-order error and leaves Y as it was.
C4_OutOfOrderRejected ==
    (last.op = "update" /\ last.t <= LastOf(last.before.itpr.x))
    => /\ last.exc = "OutOfOrder"
       /\ Y = last.before

\* C5: for every t after the most recent sample, Y(t) is Y at that sample's
\* time, the value of that sample.
C5_FlatExtrapolation ==
    (Consistent(Y) /\ StrictlySorted(Y.itpr.x)) =>
        \A t \in QueryTimes(Y) :
            t > LastOf(Y.itpr.x) =>
                /\ ddeVar_call(Y, t) = ddeVar_call(Y, LastOf(Y.itpr.x))
                /\ ddeVar_call(Y, t) = LastOf(Table(Y.itpr))

\* C6: over a strictly increasing grid of n >= 2 times ddeint returns n
\* values: g(tt[0]) first, then the value each integrate call returned,
\* which is the sample that call appended to Y.
C6_Output ==
    (pc = "done" /\ GoodGrid) =>
        /\ Len(ret.yy) = Len(tt)
        /\ ret.yy[1] = GFun(g, tt[1])
        /\ \A k \in 1..(Len(tt) - 1) :
              /\ ret.yy[k + 1] = results[k]
              /\ ret.yy[k + 1] = Table(Y.itpr)[3 + k]

\* a run over three times with a Y0 that is not g(tt[0]) has returned
C6_Witness ==
    /\ pc = "done" /\ GoodGrid /\ Len(tt) = 3
    /\ Y0 # <<>> /\ Y0 # GFun(g, tt[1])
    /\ Len(ret.yy) = 3

\* C7: with fewer than two times, or times that do not increase strictly,
\* ddeint raises before it integrates: no integrate call, no sample
\* appended, nothing returned.
C7_ConfigurationError ==
    (pc # "start" /\ ~GoodGrid) =>
        /\ pc = "raised"
        /\ last.op = "none"
        /\ i = 0
        /\ ret.yy = <<>>

\* C8: when the solver does not reach the target, integrate raises: no
\* sample is appended for that step, no further integrate call is made and
\* ddeint returns nothing.
C8_FailureSurfaces ==
    (GoodGrid /\ ode_success = 0) =>
        /\ pc = "raised"
        /\ exc = "IntegrationFailure"
        /\ Len(Y.itpr.x) = 3 + i
        /\ ret.yy = <<>>

\* C9: between the operations of a run the solver's time is the time of the
\* last sample of Y; over a strictly increasing grid it is tt[k] after the
\* k-th integrate call, and the sample times increase strictly.
C9_StepperTime ==
    (pc \in {"loop", "done"}) =>
        /\ ode_t = LastOf(Y.itpr.x)
        /\ GoodGrid => (ode_t = tt[i + 1] /\ StrictlySorted(Y.itpr.x))

\* what the right-hand side saw in step k is Y with the samples of the steps
\* before k and no other
C10_Reads ==
    \A n \in 1..Len(evals) :
        LET e == evals[n]
        IN  /\ Len(e.x) = 3 + (e.step - 1)
            /\ e.x = SubSeq(Y.itpr.x, 1, Len(e.x))
            /\ Len(e.table) = Len(e.x)
            /\ e.table = SubSeq(Table(Y.itpr), 1, Len(e.x))
            /\ e.fill_value = (IF e.step = 1 THEN GFun(g, Y.tc) ELSE LastOf(e.table))

\* Y changes when it is built, and when an integrate call that has made its
\* right-hand-side evaluations appends the solver's (t, y), once
C10_Write ==
    (Y' # Y) =>
        \/ pc = "start"
        \/ /\ pc = "solver" /\ pc' # "solver"
           /\ Y'.itpr.x = Append(Y.itpr.x, ode_t')
           /\ pc' = "loop" =>
                 /\ Table(Y'.itpr) = Append(Table(Y.itpr), ode_y')
                 /\ Y'.itpr.fill_value = ode_y'
                 /\ i' = i + 1
                 /\ Len(Y'.itpr.x) = 3 + i'

\* C10: every right-hand-side evaluation of the k-th integrate call reads
\* the live Y with exactly the samples of steps 1..k-1; the sample of step k
\* is appended once, after those evaluations and before integrate returns,
\* and Y is changed at no other time.
C10_ReadBeforeWrite == []C10_Reads /\ [][C10_Write]_vars

\* the second integrate call has returned after right-hand-side evaluations
C10_Witness ==
    /\ pc = "loop" /\ i = 2
    /\ Len(evals) >= 1
    /\ \A n \in 1..Len(evals) : evals[n].step = 2 /\ Len(evals[n].x) = 4

====
